---- MODULE Spec2Model ----
(***************************************************************************)
(* Model of the gold-price notification bot (src/app2.py): the eager       *)
(* startup fetch, the periodic check_price_changes() tick run by the       *)
(* scheduler thread, and the webhook text-message handler run by the       *)
(* request threads, all sharing the globals last_price and subscribers;    *)
(* and of the recording bot (src/app.py): its configuration check, its two *)
(* webhook routes and its message handler writing the users and messages   *)
(* tables.  A run is a run of one of the two programs.                     *)
(*                                                                         *)
(* Text is modelled by what the code reads of it: a message is the set of  *)
(* keywords its lower-cased text contains ("thong" stands for the Thai     *)
(* word for gold, "yokloek" for the Thai word for cancel).  A JSON value   *)
(* is a tagged record, so that a number and the string spelling it differ. *)
(***************************************************************************)
EXTENDS Integers, Sequences, FiniteSets, TLC

\* ------------------------------------------------------------------ bounds
\* Cap on the push attempts recorded for one tick (the loop of one tick can be
\* kept going by handlers that change the set between two of its steps).
MaxPushes == 2
\* Highest price of the snapshot pairs the delta computation is applied to on
\* its own (ApplyChange); those prices range over 95..MaxFnPrice.
MaxFnPrice == 106
\* Cap on the rows of table messages (app.py), whose ids grow without bound.
MaxMessages == 2

\* ------------------------------------------------------------- JSON values
None == [t |-> "None"]
Num(n) == [t |-> "num", v |-> n]
Str(n) == [t |-> "str", v |-> n]
IsNum(x) == x.t = "num"

Fields == {"asdate", "blbuy", "blsell", "diff"}

\* ---------------------------------------------------------- get_gold_price
\* What requests.get(url) can give: the call raises (net = "error"), or a
\* response with a status code and a body; response.json() raises on a body
\* that is not JSON (json = FALSE) and otherwise gives the decoded value:
\* null, a number, a string, an object (keys -> values) or an array.
Raised == [t |-> "raised"]
JNull == [t |-> "null"]
JObj(f) == [t |-> "obj", f |-> f]
JArr(a) == [t |-> "arr", a |-> a]

\* Python truthiness of a decoded JSON value (line 39, `if data and ...`).
Truthy(d) ==
    CASE d.t = "null" -> FALSE
      [] d.t = "num" -> d.v # 0
      [] d.t = "str" -> d.v # 0
      [] d.t = "obj" -> DOMAIN d.f # {}
      [] d.t = "arr" -> Len(d.a) > 0
      [] OTHER -> TRUE

\* The body of the try block, lines 36-46: the snapshot, None when the
\* function falls through to line 49, or Raised when a statement raises.
\* (Str(0) is the empty string; any other string has a first character.)
get_gold_price_try(resp) ==
    IF resp.net = "error" THEN Raised
    ELSE IF resp.status # 200 THEN None
    ELSE IF ~resp.json THEN Raised
    ELSE LET data == resp.data IN
         IF ~Truthy(data) THEN None
         ELSE IF data.t = "num" THEN Raised
         ELSE IF data.t = "obj" THEN Raised
         ELSE IF data.t = "str" THEN Raised
         ELSE LET latest == data.a[1] IN
              IF latest.t # "obj" THEN Raised
              ELSE IF ~(Fields \subseteq DOMAIN latest.f) THEN Raised
              ELSE [k \in Fields |-> latest.f[k]]

\* A variant that reads the body whatever the status code is.
get_gold_price_any_status(resp) ==
    LET r == get_gold_price_try([resp EXCEPT !.status = 200]) IN
    IF r = Raised THEN None ELSE r

\* get_gold_price(), lines 32-49: `except Exception` turns every raise into
\* the `return None` of line 49.
get_gold_price(resp) ==
    LET r == get_gold_price_try(resp) IN
    IF r = Raised THEN None ELSE r

\* ------------------------------------------------------ format_gold_message
Unavailable == [text |-> "unavailable"]
\* A variant without the fixed message of lines 53-54.
format_gold_message_blank(gold_data) ==
    IF gold_data = None THEN [text |-> "none"]
    ELSE [text |-> "price", asdate |-> gold_data.asdate, blbuy |-> gold_data.blbuy,
          blsell |-> gold_data.blsell, diff |-> gold_data.diff]
format_gold_message(gold_data) ==
    IF gold_data = None THEN Unavailable
    ELSE [text |-> "price", asdate |-> gold_data.asdate, blbuy |-> gold_data.blbuy,
          blsell |-> gold_data.blsell, diff |-> gold_data.diff]

\* ------------------------------------------------- the change notification
\* Line 72-73: the prices differ (Python's != on the decoded JSON values).
PriceChangedWholeSnapshot(current, last) == current # last
PriceChanged(current, last) ==
    current.blbuy # last.blbuy \/ current.blsell # last.blsell

\* Python's a - b on decoded JSON values: defined on numbers, a TypeError
\* on strings.
py_sub(a, b) == IF IsNum(a) /\ IsNum(b) THEN Num(a.v - b.v) ELSE Raised

\* str(n) of an integer, as the f-string renders it: a sequence of characters.
DigitChars == <<"0", "1", "2", "3", "4", "5", "6", "7", "8", "9">>
RECURSIVE Digits(_)
Digits(n) ==
    IF n < 10 THEN <<DigitChars[n + 1]>>
    ELSE Digits(n \div 10) \o <<DigitChars[(n % 10) + 1]>>
py_str(n) == IF n < 0 THEN <<"-">> \o Digits(-n) ELSE Digits(n)

\* Lines 83 and 85: {'+' if change > 0 else ''}{change}
SignPrefixNonNegative(change) == IF change >= 0 THEN <<"+">> ELSE <<>>
SignPrefix(change) == IF change > 0 THEN <<"+">> ELSE <<>>
RenderChange(change) == SignPrefix(change) \o py_str(change)

\* Lines 76-87: the deltas and the message, or Raised when a subtraction
\* raises.  The message is the record of the values the template renders
\* (the wall-clock time of line 86 is left out: nothing reads it).
BuildChange(current, last) ==
    LET buy_change == py_sub(current.blbuy, last.blbuy)
        sell_change == py_sub(current.blsell, last.blsell)
    IN IF buy_change = Raised \/ sell_change = Raised THEN Raised
       ELSE [blbuy |-> current.blbuy, buy_change |-> RenderChange(buy_change.v),
             blsell |-> current.blsell, sell_change |-> RenderChange(sell_change.v)]

\* Line 96: last_price = current_price.
NextLastPriceKeepOnFailure(current, last) == IF current = None THEN last ELSE current
NextLastPrice(current, last) == current

\* ------------------------------------------------------------------ inputs
Users == {"u1", "u2"}
NoUser == "-"
\* The request threads of the threaded development server (line 167).
Handlers == {"h1", "h2"}
\* The texts sent: no keyword, a gold keyword, an unsubscribe keyword, and an
\* unsubscribe keyword together with a gold keyword.
Messages ==
    {{}, {"gold"}, {"yokloek"}, {"unsubscribe"}, {"thong", "unsubscribe"}}

Ok200(data) == [net |-> "ok", status |-> 200, json |-> TRUE, data |-> data]
NetError == [net |-> "error", status |-> 0, json |-> FALSE, data |-> JNull]
Http500 == [net |-> "ok", status |-> 500, json |-> FALSE, data |-> JNull]

\* The first elements the feed serves to the running program: a quote, the
\* same prices under another date and spread, quotes that move the buying
\* price, the selling price or both, and one quote whose buying price is a
\* JSON string.
Quote(d, b, s, x) == [asdate |-> d, blbuy |-> b, blsell |-> s, diff |-> x]
FeedSnapshots ==
    {Quote("d1", Num(100), Num(102), Num(50)),
     Quote("d2", Num(100), Num(102), Num(100)),
     Quote("d1", Num(101), Num(102), Num(50)),
     Quote("d2", Num(100), Num(101), Num(50)),
     Quote("d2", Num(99), Num(104), Num(100)),
     Quote("d1", Str(100), Num(102), Num(50))}
FeedResponses ==
    {NetError, Http500} \cup {Ok200(JArr(<<JObj(e)>>)) : e \in FeedSnapshots}
\* What the feed serves to a handler's own fetch (line 130).
HandlerResponses ==
    {NetError,
     Ok200(JArr(<<JObj(Quote("d1", Num(100), Num(102), Num(50)))>>))}

\* ------------------------------------------------------------------- state
VARIABLES
    main_pc,        \* app2.py's main thread: "off" (app.py is the program run),
                    \* "init" before line 20 has run, "failed" (the module
                    \* raised before line 154) or "serving" (after line 167)
    last_price,     \* the global of line 29
    subscribers,    \* the global of line 30
    tick_pc,        \* scheduler thread: "off", "idle", "dispatch" (in the loop
                    \* of line 90, a push_message call in flight) or "dead" (an
                    \* exception left run_schedule)
    fetched,        \* the value get_gold_price() last returned to line 156 or
                    \* to line 69 (the tick's local current_price)
    change_message, \* the tick's local of line 80, None when none was built
    it_size,        \* the set iterator of line 90: the size it expects
    it_remaining,   \* the set iterator of line 90: the entries ahead of it
    it_user,        \* the loop variable user_id: the push in flight is to it
    prev_price,     \* last_price as line 70 of the latest tick read it
    fetched_prev,   \* the value fetched before `fetched`
    fetched_good,   \* the last snapshot fetched before `fetched` (None: none yet)
    dispatch_set,   \* subscribers as they were when the loop of line 90 began
    tick_pushed,    \* the push attempts of line 92 in the latest tick
    tick_error,     \* the exception that ended the scheduler thread
    h_pc,           \* request thread: "idle", or "remove" (between 141 and 142)
    h_user,         \* request thread: the sender of the event being handled
    last_req,       \* the request that completed last: its sender, whether its
                    \* text had an unsubscribe keyword, whether the sender was
                    \* in the set when the handler read or changed it, what
                    \* get_gold_price() returned, the reply attempted, its
                    \* outcome and the number of reply_message calls, the
                    \* outcome of the confirmation push, and the HTTP status
    fn_in,          \* the input a function is applied to on its own
    fn_out,         \* and what the function returned (Pending before the call)
    quiet,          \* the users who have been outside the set ever since the
                    \* dispatch in progress started ({} when none is)
    env,            \* the configuration values present in the environment
                    \* after load_dotenv()
    app_pc,         \* app.py's main thread: "off" (app2.py is the program
                    \* run), "init", "failed" (line 36 raised) or "serving"
    users,          \* app.py: the primary keys of the rows of table users
    messages,       \* app.py: the rows of table messages, in id order
    a_pc,           \* app.py request thread: "idle", or "store" (after the
                    \* SELECT of line 160)
    a_local,        \* app.py request thread: the event being handled and
                    \* what line 161 fetched
    app_req         \* app.py: the request that completed last

tick_vars == <<tick_pc, fetched, change_message, it_size, it_remaining, it_user,
               prev_price, fetched_prev, fetched_good, dispatch_set, tick_pushed,
               tick_error, quiet>>
handler_vars == <<h_pc, h_user, last_req>>
fn_vars == <<fn_in, fn_out>>
app2_vars == <<main_pc, last_price, subscribers, tick_vars, handler_vars>>
app_vars == <<app_pc, users, messages, a_pc, a_local, app_req>>
vars == <<env, app2_vars, app_vars, fn_vars>>

NoRequest == [kind |-> "none"]
NoInput == [fn |-> "none"]
Pending == [t |-> "pending"]
NotFetched == [t |-> "not_fetched"]

\* The four values read by os.getenv (app2.py lines 20-23, app.py lines
\* 29-32); a value that is absent reads None.
ConfigKeys ==
    {"LINE_CHANNEL_ACCESS_TOKEN", "LINE_CHANNEL_SECRET", "LINE_CHANNEL_ID",
     "LINE_USER_ID"}

\* The request threads of app.py's threaded development server (line 258).
AppHandlers == {"a1", "a2"}
NoEvent == [source |-> "none"]

InitGlobals ==
    /\ last_price = None
    /\ subscribers = {}
    /\ tick_pc = "off"
    /\ fetched = None
    /\ change_message = None
    /\ it_size = 0
    /\ it_remaining = {}
    /\ it_user = NoUser
    /\ prev_price = None
    /\ fetched_prev = None
    /\ fetched_good = None
    /\ dispatch_set = {}
    /\ tick_pushed = <<>>
    /\ tick_error = "none"
    /\ quiet = {}
    /\ h_pc = [h \in Handlers |-> "idle"]
    /\ h_user = [h \in Handlers |-> NoUser]
    /\ last_req = NoRequest
    /\ users = {}
    /\ messages = <<>>
    /\ a_pc = [a \in AppHandlers |-> "idle"]
    /\ a_local = [a \in AppHandlers |-> NoEvent]
    /\ app_req = NoRequest

\* app2.py is the program run.
InitProgram ==
    /\ InitGlobals
    /\ main_pc = "init"
    /\ app_pc = "off"

Init ==
    /\ InitProgram
    /\ env = ConfigKeys
    /\ fn_in = NoInput
    /\ fn_out = Pending

\* ----------------------------------------------------------------- startup
\* Lines 154-167: the eager fetch, the schedule, the scheduler thread, the
\* server.
\* Lines 20-26: the module reads the four values and builds the SDK's client
\* and handler from two of them; the other two are read and never used.  The
\* SDK's LineBotApi(None) raises TypeError ('Bearer ' + None) and its
\* WebhookHandler(None) raises AttributeError (None.encode), which end the
\* program before line 154.
app2_module_loads(e) ==
    {"LINE_CHANNEL_ACCESS_TOKEN", "LINE_CHANNEL_SECRET"} \subseteq e

Startup(resp) ==
    /\ main_pc = "init"
    /\ IF app2_module_loads(env)
       THEN /\ main_pc' = "serving"
            /\ last_price' = get_gold_price(resp)
            /\ fetched' = get_gold_price(resp)
            /\ tick_pc' = "idle"
       ELSE /\ main_pc' = "failed"
            /\ UNCHANGED <<last_price, fetched, tick_pc>>
    /\ UNCHANGED <<subscribers, change_message, it_size, it_remaining, it_user, prev_price,
                   fetched_prev, fetched_good, dispatch_set, tick_pushed, tick_error,
                   quiet, handler_vars, fn_vars, env, app_vars>>

\* ---------------------------------------------------- check_price_changes
\* Lines 91-94: is an exception of push_message caught inside the loop?
\* `except Exception` catches every failure of the call.
PushCaughtOnlyOnSuccess(ok) == ok
PushCaught(ok) == TRUE

\* Lines 69-90 and the loop's first next(): the fetch, the comparison, the
\* message, and the iterator created on the set.  A subtraction that raises
\* leaves check_price_changes, schedule.run_pending and run_schedule (none of
\* them catches it), which ends the scheduler thread before line 96.  With no
\* subscriber the loop ends at once and line 96 runs; otherwise the step ends
\* with the first push_message call in flight.
TickFetch(resp) ==
    /\ tick_pc = "idle"
    /\ LET current_price == get_gold_price(resp)
           changed == /\ current_price # None
                      /\ last_price # None
                      /\ PriceChanged(current_price, last_price)
           message == IF changed THEN BuildChange(current_price, last_price) ELSE None
       IN /\ fetched' = current_price
          /\ fetched_prev' = fetched
          /\ fetched_good' = IF fetched # None THEN fetched ELSE fetched_good
          /\ prev_price' = last_price
          /\ tick_pushed' = <<>>
          /\ IF ~changed
             THEN /\ last_price' = NextLastPrice(current_price, last_price)
                  /\ change_message' = None
                  /\ dispatch_set' = {}
                  /\ UNCHANGED <<tick_pc, it_size, it_remaining, it_user, tick_error,
                                 quiet>>
             ELSE IF message = Raised
             THEN /\ tick_pc' = "dead"
                  /\ tick_error' = "TypeError"
                  /\ change_message' = None
                  /\ dispatch_set' = {}
                  /\ UNCHANGED <<last_price, it_size, it_remaining, it_user, quiet>>
             ELSE /\ change_message' = message
                  /\ dispatch_set' = subscribers
                  /\ IF subscribers = {}
                     THEN /\ last_price' = NextLastPrice(current_price, last_price)
                          /\ UNCHANGED <<tick_pc, it_size, it_remaining, it_user,
                                         quiet>>
                     ELSE /\ tick_pc' = "dispatch"
                          /\ quiet' = Users \ subscribers
                          /\ it_size' = Cardinality(subscribers)
                          /\ \E user_id \in subscribers :
                               /\ it_user' = user_id
                               /\ it_remaining' = subscribers \ {user_id}
                          /\ UNCHANGED last_price
                  /\ UNCHANGED tick_error
    /\ UNCHANGED <<main_pc, subscribers, handler_vars, fn_vars, env, app_vars>>

\* Lines 92-94 and the loop's next next(): the push_message call in flight
\* returns or raises; then next() raises RuntimeError("Set changed size during
\* iteration") when the set's size is not the size the iterator was created
\* with (the for statement is outside the try of line 91, so this ends the
\* scheduler thread as above), or the loop ends and line 96 runs, or the next
\* push_message call begins.
TickNext(ok) ==
    /\ tick_pc = "dispatch"
    /\ Len(tick_pushed) < MaxPushes
    /\ tick_pushed' = Append(tick_pushed, [user |-> it_user, ok |-> ok])
    /\ IF ~PushCaught(ok)
       THEN /\ tick_pc' = "dead"
            /\ tick_error' = "LineBotApiError"
            /\ it_size' = 0
            /\ it_remaining' = {}
            /\ it_user' = NoUser
            /\ quiet' = {}
            /\ UNCHANGED last_price
       ELSE IF Cardinality(subscribers) # it_size
       THEN /\ tick_pc' = "dead"
            /\ tick_error' = "RuntimeError"
            /\ it_size' = 0
            /\ it_remaining' = {}
            /\ it_user' = NoUser
            /\ quiet' = {}
            /\ UNCHANGED last_price
       ELSE IF it_remaining = {}
       THEN /\ tick_pc' = "idle"
            /\ last_price' = NextLastPrice(fetched, last_price)
            /\ it_size' = 0
            /\ it_remaining' = {}
            /\ it_user' = NoUser
            /\ quiet' = {}
            /\ UNCHANGED tick_error
       ELSE /\ \E user_id \in it_remaining :
                 /\ it_user' = user_id
                 /\ it_remaining' = it_remaining \ {user_id}
            /\ UNCHANGED <<tick_pc, tick_error, it_size, last_price, quiet>>
    /\ UNCHANGED <<main_pc, subscribers, fetched, change_message, prev_price,
                   fetched_prev, fetched_good, dispatch_set, handler_vars, fn_vars,
                   env, app_vars>>

\* ------------------------------------------------------ handle_text_message
\* Lines 129 and 140: the branch a message takes.
IsGoldTrigger(m) == "gold" \in m \/ "thong" \in m
HasUnsubscribeWord(m) == "yokloek" \in m \/ "unsubscribe" \in m
IsUnsubscribe(m) == ~IsGoldTrigger(m) /\ HasUnsubscribeWord(m)

\* Lines 135 and 142 on the global set.
set_add_replacing(S, u) == {u}
set_add(S, u) == S \cup {u}
set_remove_keeping(S, u) == S
set_remove(S, u) == S \ {u}

\* What a change of the set does to the iterator of a loop in progress, in
\* CPython: a removed entry is no longer ahead of the iterator; a new entry
\* lands ahead of it or behind it, and the table may be rebuilt on an
\* insertion, after which any of the entries may be ahead of it.
IterAfterAdd(u) ==
    IF tick_pc = "dispatch" /\ u \notin subscribers
    THEN SUBSET set_add(subscribers, u)
    ELSE {it_remaining}
IterAfterRemove(u) ==
    IF tick_pc = "dispatch" THEN it_remaining \ {u} ELSE it_remaining

NoReply == [text |-> "none"]
Cancelled == [text |-> "cancelled"]
NotRegistered == [text |-> "not_registered"]
Echo(m) == [text |-> "echo", of |-> m]

\* The HTTP status of webhook(), lines 116-121: 200 when handler.handle
\* returns, 400 on InvalidSignatureError; any other exception leaves the view
\* function and the server answers 500.
webhook_status_uncaught(exc) == IF exc = "none" THEN 200 ELSE 500
webhook_status(exc) ==
    IF exc = "none" THEN 200
    ELSE IF exc = "InvalidSignatureError" THEN 400
    ELSE 500
Status(raised) == webhook_status(IF raised THEN "Exception" ELSE "none")

\* What a request that invoked no handler leaves in last_req.
Unhandled(kind, http) ==
    [kind |-> kind, user |-> NoUser, unsub |-> FALSE, member |-> FALSE,
     gold_data |-> NotFetched, reply |-> NoReply, reply_ok |-> FALSE, replies |-> 0, confirm |-> "none",
     http |-> http]

\* Lines 116-119: the signature does not verify; handler.handle raises
\* InvalidSignatureError before any event is dispatched.
WebhookRejected(h) ==
    /\ main_pc = "serving"
    /\ h_pc[h] = "idle"
    /\ last_req' = Unhandled("rejected", webhook_status("InvalidSignatureError"))
    /\ UNCHANGED <<main_pc, last_price, subscribers, tick_vars, h_pc, h_user, fn_vars,
                   env, app_vars>>

\* Lines 113-119 for a request without the X-Line-Signature header:
\* headers.get gives None, and the SDK's handler.handle(body, None) raises
\* before any event is dispatched, InvalidSignatureError or another exception
\* (exc).
WebhookNoSignature(h, exc) ==
    /\ main_pc = "serving"
    /\ h_pc[h] = "idle"
    /\ last_req' = Unhandled("nosig", webhook_status(exc))
    /\ UNCHANGED <<main_pc, last_price, subscribers, tick_vars, h_pc, h_user, fn_vars,
                   env, app_vars>>

\* Lines 132-135: line 135 is reached when reply_message has returned.
ReachesAddAlways(reply_ok) == TRUE
ReachesAdd(reply_ok) == reply_ok

\* Lines 129-139: the price reply, then the registration and its
\* confirmation push.  A reply that raises leaves the handler before line 135.
HandleGold(h, u, m, resp, reply_ok, push_ok) ==
    /\ main_pc = "serving"
    /\ h_pc[h] = "idle"
    /\ IsGoldTrigger(m)
    /\ LET gold_data == get_gold_price(resp)
           reply_text == format_gold_message(gold_data)
           req == [kind |-> "gold", user |-> u, unsub |-> HasUnsubscribeWord(m),
                   member |-> u \in subscribers,
                   gold_data |-> gold_data, reply |-> reply_text,
                   reply_ok |-> reply_ok, replies |-> 1, confirm |-> "none",
                   http |-> 500]
       IN IF ~ReachesAdd(reply_ok)
          THEN /\ last_req' = req
               /\ UNCHANGED <<subscribers, it_remaining, quiet>>
          ELSE /\ subscribers' = set_add(subscribers, u)
               /\ it_remaining' \in IterAfterAdd(u)
               /\ quiet' = quiet \ {u}
               /\ last_req' = [req EXCEPT !.confirm = IF push_ok THEN "ok" ELSE "failed",
                                          !.http = Status(~push_ok)]
    /\ UNCHANGED <<main_pc, last_price, tick_pc, fetched, change_message, it_size, it_user,
                   prev_price, fetched_prev, fetched_good, dispatch_set, tick_pushed,
                   tick_error, h_pc, h_user, fn_vars, env, app_vars>>

\* Lines 140-141 and, for a sender who is not in the set, lines 146-149.
HandleUnsubscribeCheck(h, u, m, reply_ok) ==
    /\ main_pc = "serving"
    /\ h_pc[h] = "idle"
    /\ IsUnsubscribe(m)
    /\ IF u \in subscribers
       THEN /\ h_pc' = [h_pc EXCEPT ![h] = "remove"]
            /\ h_user' = [h_user EXCEPT ![h] = u]
            /\ UNCHANGED last_req
       ELSE /\ last_req' = [kind |-> "unsubscribe", user |-> u,
                            unsub |-> HasUnsubscribeWord(m), member |-> FALSE,
                            gold_data |-> NotFetched, reply |-> NotRegistered,
                            reply_ok |-> reply_ok, replies |-> 1, confirm |-> "none",
                            http |-> Status(~reply_ok)]
            /\ UNCHANGED <<h_pc, h_user>>
    /\ UNCHANGED <<main_pc, last_price, subscribers, tick_vars, fn_vars, env, app_vars>>

\* Lines 142-145: set.remove raises KeyError when another request thread has
\* removed the sender since line 141.
HandleUnsubscribeRemove(h, reply_ok) ==
    /\ h_pc[h] = "remove"
    /\ LET u == h_user[h]
           req == [kind |-> "unsubscribe", user |-> u, unsub |-> TRUE, member |-> TRUE,
                   gold_data |-> NotFetched, reply |-> NoReply, reply_ok |-> FALSE,
                   replies |-> 0, confirm |-> "none", http |-> 500]
       IN IF u \notin subscribers
          THEN /\ last_req' = req
               /\ UNCHANGED <<subscribers, it_remaining>>
          ELSE /\ subscribers' = set_remove(subscribers, u)
               /\ it_remaining' = IterAfterRemove(u)
               /\ last_req' = [req EXCEPT !.reply = Cancelled, !.reply_ok = reply_ok,
                                          !.replies = 1, !.http = Status(~reply_ok)]
    /\ h_pc' = [h_pc EXCEPT ![h] = "idle"]
    /\ h_user' = [h_user EXCEPT ![h] = NoUser]
    /\ UNCHANGED <<main_pc, last_price, tick_pc, fetched, change_message, it_size, it_user,
                   prev_price, fetched_prev, fetched_good, dispatch_set, tick_pushed,
                   tick_error, quiet, fn_vars, env, app_vars>>

\* Lines 150-151: any other text is echoed.
HandleOther(h, u, m, reply_ok) ==
    /\ main_pc = "serving"
    /\ h_pc[h] = "idle"
    /\ ~IsGoldTrigger(m)
    /\ ~IsUnsubscribe(m)
    /\ last_req' = [kind |-> "other", user |-> u, unsub |-> HasUnsubscribeWord(m),
                    member |-> FALSE,
                    gold_data |-> NotFetched, reply |-> Echo(m),
                    reply_ok |-> reply_ok, replies |-> 1, confirm |-> "none",
                    http |-> Status(~reply_ok)]
    /\ UNCHANGED <<main_pc, last_price, subscribers, tick_vars, h_pc, h_user, fn_vars,
                   env, app_vars>>

\* ------------------------------------------------------------ the program
\* One step of the program: of the main thread, of the scheduler thread or of
\* a request thread, with what the environment supplies drawn from the given
\* sets (Feed: the feed's responses to the startup and to the tick; Pushes:
\* the outcomes of a notification push; Hs: the request threads in use; Msgs:
\* the texts received; HFeed: the feed's responses to a handler; Sends: the
\* outcomes of a handler's reply or push).
Step(Feed, Pushes, Hs, Msgs, HFeed, Sends) ==
    \/ \E resp \in Feed : Startup(resp)
    \/ \E resp \in Feed : TickFetch(resp)
    \/ \E ok \in Pushes : TickNext(ok)
    \/ \E h \in Hs : WebhookRejected(h)
    \/ \E h \in Hs, exc \in {"InvalidSignatureError", "Exception"} :
            WebhookNoSignature(h, exc)
    \/ \E h \in Hs, u \in Users, m \in Msgs, resp \in HFeed,
          reply_ok \in Sends, push_ok \in Sends :
            HandleGold(h, u, m, resp, reply_ok, push_ok)
    \/ \E h \in Hs, u \in Users, m \in Msgs, reply_ok \in Sends :
            HandleUnsubscribeCheck(h, u, m, reply_ok)
    \/ \E h \in Hs, reply_ok \in Sends : HandleUnsubscribeRemove(h, reply_ok)
    \/ \E h \in Hs, u \in Users, m \in Msgs, reply_ok \in Sends :
            HandleOther(h, u, m, reply_ok)

Next == Step(FeedResponses, BOOLEAN, Handlers, Messages, HandlerResponses, BOOLEAN)
Spec == Init /\ [][Next]_vars

\* The program with every outcome of the feed and of the notification pushes,
\* and one request thread whose own sends succeed.
TickFeed ==
    {NetError, Http500} \cup
    {Ok200(JArr(<<JObj(e)>>)) : e \in
        {Quote("d1", Num(100), Num(102), Num(50)),
         Quote("d2", Num(100), Num(102), Num(100)),
         Quote("d1", Num(101), Num(102), Num(50)),
         Quote("d1", Str(100), Num(102), Num(50))}}
TickMessages == {{}, {"gold"}, {"unsubscribe"}}
NextTick ==
    Step(TickFeed, BOOLEAN, {"h1"}, TickMessages,
         {Ok200(JArr(<<JObj(Quote("d1", Num(100), Num(102), Num(50)))>>))}, {TRUE})
SpecTick == Init /\ [][NextTick]_vars

\* The program with every outcome of a handler's fetch, reply and push, two
\* request threads and the texts of one keyword, fed a feed that quotes one of
\* two prices, with notification pushes that succeed.
RequestFeed ==
    {Ok200(JArr(<<JObj(Quote("d1", Num(100), Num(102), Num(50)))>>)),
     Ok200(JArr(<<JObj(Quote("d1", Num(101), Num(102), Num(50)))>>))}
NextRequests ==
    Step(RequestFeed, {TRUE}, Handlers, TickMessages, HandlerResponses, BOOLEAN)
SpecRequests == Init /\ [][NextRequests]_vars

\* The same with one request thread and every text, the texts of two
\* keywords included.
NextTexts ==
    Step(RequestFeed, {TRUE}, {"h1"}, Messages, HandlerResponses, BOOLEAN)
SpecTexts == Init /\ [][NextTexts]_vars

\* ----------------------------------------------------------------- app.py
\* Lines 34-36: `if not all([...]): raise ValueError`.
config_valid(e) == ConfigKeys \subseteq e

\* Lines 29-42 and 109: the configuration check, the SDK objects and init_db
\* (CREATE TABLE IF NOT EXISTS: the rows are left as they are), then line 258.
AppStartup ==
    /\ app_pc = "init"
    /\ app_pc' = IF config_valid(env) THEN "serving" ELSE "failed"
    /\ UNCHANGED <<users, messages, a_pc, a_local, app_req, env, app2_vars, fn_vars>>

\* Lines 113-120: the status handle_webhook answers with.
handle_webhook_status(exc) ==
    IF exc = "none" THEN 200
    ELSE IF exc = "InvalidSignatureError" THEN 400
    ELSE 500

AppRoutes == {"/callback", "/webhook"}

\* The sources of the events received: a user, a group and a room, and a
\* source of a type the code does not name.
AppSources ==
    {[type |-> "user", user_id |-> "u1", group_id |-> NoUser, room_id |-> NoUser],
     [type |-> "group", user_id |-> "u1", group_id |-> "g1", room_id |-> NoUser],
     [type |-> "room", user_id |-> "u2", group_id |-> NoUser, room_id |-> "r1"],
     [type |-> "device", user_id |-> "u2", group_id |-> NoUser, room_id |-> NoUser]}
AppTexts == {{}, {"gold"}}

\* Lines 144-151: the id the event is stored under, NoUser when the handler
\* returns at line 151.
source_id_defaulting(source) ==
    IF source.type = "group" THEN source.group_id
    ELSE IF source.type = "room" THEN source.room_id
    ELSE source.user_id
source_id(source) ==
    IF source.type = "user" THEN source.user_id
    ELSE IF source.type = "group" THEN source.group_id
    ELSE IF source.type = "room" THEN source.room_id
    ELSE NoUser

\* Line 185.
AppIsGold(m) == "gold" \in m \/ "thong" \in m

ErrorReply == [text |-> "error"]
Sent(text, ok) == [text |-> text, ok |-> ok]

\* What a request leaves in app_req: the route of a request that reached no
\* handler (an event reaches handle_message the same way from either route),
\* the event's source type, id and text, whether its row was committed, what
\* get_gold_price() returned (NotFetched when it was not called), the
\* reply_message calls made with the event's reply token, in order, and the
\* HTTP status.
AnyRoute == "*"
AppUnhandled(kind, route, http) ==
    [kind |-> kind, route |-> route, source |-> "none", user_id |-> NoUser,
     text |-> {}, stored |-> FALSE, gold_data |-> NotFetched, replies |-> <<>>,
     http |-> http]

\* Lines 113-116, from either route: the signature does not verify;
\* handler.handle raises InvalidSignatureError before any event is dispatched.
AppRejected(a, route) ==
    /\ app_pc = "serving"
    /\ a_pc[a] = "idle"
    /\ app_req' = AppUnhandled("rejected", route,
                               handle_webhook_status("InvalidSignatureError"))
    /\ UNCHANGED <<app_pc, users, messages, a_pc, a_local, env, app2_vars, fn_vars>>

\* A request without the X-Line-Signature header: /webhook answers 400 at
\* line 134; in /callback the subscript of line 125 raises a KeyError, which
\* the framework answers with 400 or 500.
missing_signature_status(route) ==
    IF route = "/webhook" THEN {400} ELSE {400, 500}
AppNoSignature(a, route, http) ==
    /\ app_pc = "serving"
    /\ a_pc[a] = "idle"
    /\ http \in missing_signature_status(route)
    /\ app_req' = AppUnhandled("nosig", route, http)
    /\ UNCHANGED <<app_pc, users, messages, a_pc, a_local, env, app2_vars, fn_vars>>

\* Lines 141-161: the source check, the text, and the SELECT of the sender's
\* row on the request's own connection.  An event of another source type
\* returns at line 151.
AppBegin(a, source, text) ==
    /\ app_pc = "serving"
    /\ a_pc[a] = "idle"
    /\ LET user_id == source_id(source) IN
       IF user_id = NoUser
       THEN /\ app_req' = [AppUnhandled("message", AnyRoute,
                                        handle_webhook_status("none"))
                              EXCEPT !.source = source.type, !.text = text]
            /\ UNCHANGED <<a_pc, a_local>>
       ELSE /\ Len(messages) + Cardinality({b \in AppHandlers : a_pc[b] = "store"})
                 < MaxMessages
            /\ a_pc' = [a_pc EXCEPT ![a] = "store"]
            /\ a_local' = [a_local EXCEPT ![a] =
                              [source |-> source.type, text |-> text,
                               user_id |-> user_id, user |-> user_id \in users]]
            /\ UNCHANGED app_req
    /\ UNCHANGED <<app_pc, users, messages, env, app2_vars, fn_vars>>

\* Lines 163-176: is the sender's row inserted?  Only when the SELECT found
\* none, get_profile (called for a user source) returned, and the INSERT does
\* not hit the primary key of a row committed since the SELECT; every
\* failure is caught at line 174.
user_row_inserted_always(e, profile_ok, rows) == TRUE
user_row_inserted(e, profile_ok, rows) ==
    /\ ~e.user
    /\ e.source = "user" => profile_ok
    /\ e.user_id \notin rows

\* Lines 163-207: the rows, the commit, the price fetch and the reply.  The
\* connection does not turn foreign-key enforcement on, so the INSERT of line
\* 179 goes through whether or not the sender has a row.  When a statement
\* of the transaction raises (db_ok is false) the connection is closed
\* without a commit and the handler goes to line 197.  A reply_message that
\* raises at line 196 goes to line 197 as well, where reply_message is called
\* again with the same token; what that call raises is dropped.
AppFinish(a, profile_ok, db_ok, resp, reply_ok, error_ok) ==
    /\ a_pc[a] = "store"
    /\ LET e == a_local[a]
           gold_data == IF AppIsGold(e.text) THEN get_gold_price(resp) ELSE NotFetched
           reply_text == IF AppIsGold(e.text) THEN format_gold_message(gold_data)
                         ELSE Echo(e.text)
           req == [kind |-> "message", route |-> AnyRoute, source |-> e.source,
                   user_id |-> e.user_id, text |-> e.text, stored |-> db_ok,
                   gold_data |-> NotFetched, replies |-> <<>>,
                   http |-> handle_webhook_status("none")]
       IN IF ~db_ok
          THEN /\ UNCHANGED <<users, messages>>
               /\ app_req' = [req EXCEPT !.replies = <<Sent(ErrorReply, error_ok)>>]
          ELSE /\ users' = IF user_row_inserted(e, profile_ok, users)
                           THEN users \cup {e.user_id} ELSE users
               /\ messages' = Append(messages, [user_id |-> e.user_id, message |-> e.text])
               /\ app_req' = [req EXCEPT
                     !.gold_data = gold_data,
                     !.replies = IF reply_ok THEN <<Sent(reply_text, TRUE)>>
                                 ELSE <<Sent(reply_text, FALSE),
                                        Sent(ErrorReply, error_ok)>>]
    /\ a_pc' = [a_pc EXCEPT ![a] = "idle"]
    /\ a_local' = [a_local EXCEPT ![a] = NoEvent]
    /\ UNCHANGED <<app_pc, env, app2_vars, fn_vars>>

\* One step of app.py: of its main thread or of a request thread.
AppStep ==
    \/ AppStartup
    \/ \E a \in AppHandlers, route \in AppRoutes : AppRejected(a, route)
    \/ \E a \in AppHandlers, route \in AppRoutes, http \in {400, 500} :
            AppNoSignature(a, route, http)
    \/ \E a \in AppHandlers, source \in AppSources, text \in AppTexts :
            AppBegin(a, source, text)
    \/ \E a \in AppHandlers, profile_ok \in BOOLEAN, db_ok \in BOOLEAN,
          resp \in HandlerResponses, reply_ok \in BOOLEAN, error_ok \in BOOLEAN :
            AppFinish(a, profile_ok, db_ok, resp, reply_ok, error_ok)

\* --------------------------------------------------------- the two programs
\* A run of either program with the four values present: app2.py with one
\* request thread and every outcome of its fetches and sends, or app.py.
InitEither ==
    /\ InitGlobals
    /\ \/ main_pc = "init" /\ app_pc = "off"
       \/ main_pc = "off" /\ app_pc = "init"
    /\ fn_in = NoInput
    /\ fn_out = Pending
InitPrograms ==
    /\ InitEither
    /\ env = ConfigKeys
NextPrograms ==
    \/ Step(RequestFeed, {TRUE}, {"h1"}, TickMessages, HandlerResponses, BOOLEAN)
    \/ AppStep
SpecPrograms == InitPrograms /\ [][NextPrograms]_vars

\* A run of either program started under any environment, the ones that lack
\* some of the values included; app2.py's own sends succeed.
InitStartup ==
    /\ InitEither
    /\ env \in SUBSET ConfigKeys
NextStartup ==
    \/ Step(RequestFeed, {TRUE}, {"h1"}, TickMessages,
            {Ok200(JArr(<<JObj(Quote("d1", Num(100), Num(102), Num(50)))>>))}, {TRUE})
    \/ AppStep
SpecStartup == InitStartup /\ [][NextStartup]_vars

\* ------------------------------------------------ the functions on their own
\* get_gold_price() and the comparison and message of lines 72-87, each
\* applied once to an input drawn from a wider set than the running program
\* is fed.
Restrict(f, D) == [k \in D |-> f[k]]
FullElements ==
    {[asdate |-> "d1", blbuy |-> Num(100), blsell |-> Num(102), diff |-> Num(50),
      extra |-> Num(1)],
     [asdate |-> "d2", blbuy |-> Str(101), blsell |-> Num(0), diff |-> JNull,
      extra |-> Num(2)]}
ElementObjects ==
    {JObj(Restrict(e, D)) : e \in FullElements, D \in SUBSET (Fields \cup {"extra"})}
Elements == ElementObjects \cup {JNull, Num(1), Str(1), JArr(<<>>)}
SecondElements ==
    {JNull, JObj([asdate |-> "d9", blbuy |-> Num(1), blsell |-> Num(2), diff |-> Num(3)])}
Bodies ==
    {JNull, Num(0), Num(7), Str(0), Str(5), JObj(<<>>),
     JObj([asdate |-> "d1", blbuy |-> Num(100), blsell |-> Num(102), diff |-> Num(50)]),
     JArr(<<>>)}
    \cup {JArr(<<e>>) : e \in Elements}
    \cup {JArr(<<e, e2>>) : e \in Elements, e2 \in SecondElements}
AllResponses ==
    {NetError}
    \cup {[net |-> "ok", status |-> st, json |-> FALSE, data |-> JNull] :
            st \in {200, 404, 500}}
    \cup {[net |-> "ok", status |-> st, json |-> TRUE, data |-> d] :
            st \in {200, 404, 500}, d \in Bodies}

FnPrices == 95..MaxFnPrice
FnSnapshots ==
    {Quote("d1", Num(b), Num(s), Num(50)) : b \in FnPrices, s \in FnPrices}
FnInputs ==
    {[fn |-> "get_gold_price", resp |-> r] : r \in AllResponses}
    \cup {[fn |-> "change", last |-> a, current |-> b] :
            a \in FnSnapshots, b \in FnSnapshots}

InitFn ==
    /\ InitProgram
    /\ env = ConfigKeys
    /\ fn_in \in FnInputs
    /\ fn_out = Pending

ApplyFetch ==
    /\ fn_in.fn = "get_gold_price"
    /\ fn_out = Pending
    /\ fn_out' = get_gold_price(fn_in.resp)
    /\ UNCHANGED <<env, app2_vars, app_vars, fn_in>>

\* Lines 72-87 applied to a pair of snapshots: the message, or None when the
\* prices are equal.
ApplyChange ==
    /\ fn_in.fn = "change"
    /\ fn_out = Pending
    /\ fn_out' = IF PriceChanged(fn_in.current, fn_in.last)
                 THEN BuildChange(fn_in.current, fn_in.last)
                 ELSE None
    /\ UNCHANGED <<env, app2_vars, app_vars, fn_in>>

NextFn == ApplyFetch \/ ApplyChange
SpecFn == InitFn /\ [][NextFn]_vars

\* ------------------------------------------------------------------ claims
PushedUsers == {tick_pushed[i].user : i \in 1..Len(tick_pushed)}
SamePrices(a, b) == a.blbuy = b.blbuy /\ a.blsell = b.blsell

\* C1: when the previous snapshot and the snapshot a tick fetches both exist
\* and have equal blbuy and equal blsell, the tick builds no notification and
\* pushes to no subscriber, whatever asdate and diff are.
C1_NoNotificationOnEqualPrices ==
    (prev_price # None /\ fetched # None /\ SamePrices(prev_price, fetched))
        => (change_message = None /\ tick_pushed = <<>> /\ tick_pc # "dispatch")

\* A tick has compared two snapshots with equal prices and different asdate
\* and diff, with a subscriber registered, and has finished.
C1_Witness ==
    /\ prev_price # None /\ fetched # None
    /\ SamePrices(prev_price, fetched)
    /\ prev_price.asdate # fetched.asdate
    /\ prev_price.diff # fetched.diff
    /\ subscribers # {}
    /\ tick_pc = "idle" /\ last_price = fetched

\* C2: a tick compares only against the value fetched by the immediately
\* preceding tick (or by the startup fetch): whatever a tick read as last_price
\* is the preceding fetch, and after a preceding fetch of None the tick builds
\* and sends no notification.
C2_ComparedAgainstPrecedingFetch ==
    /\ prev_price = fetched_prev
    /\ fetched_prev = None
         => (change_message = None /\ tick_pushed = <<>> /\ tick_pc # "dispatch")

\* The fetch before the latest tick failed, the latest tick fetched a snapshot
\* whose prices differ from the last snapshot fetched before the failure, a
\* subscriber is registered, and the tick has finished without a push.
C2_Witness ==
    /\ fetched_prev = None /\ fetched_good # None /\ fetched # None
    /\ ~SamePrices(fetched, fetched_good)
    /\ subscribers # {}
    /\ tick_pc = "idle" /\ last_price = fetched /\ tick_pushed = <<>>

\* C3: no subscribe or unsubscribe takes effect in the middle of a dispatch's
\* read of the set: while the loop of line 90 runs, the set is the set the
\* loop started on.
C3_DispatchReadsConsistentSet ==
    tick_pc = "dispatch" => subscribers = dispatch_set

\* C4: when a tick has detected a price change and its dispatch is over, a
\* push was attempted exactly once for every user that was in the set when
\* the dispatch started, and for no one else.
C4_PushedExactlyOncePerSubscriber ==
    (change_message # None /\ tick_pc # "dispatch")
        => /\ PushedUsers = dispatch_set
           /\ Len(tick_pushed) = Cardinality(dispatch_set)

\* C5: a push that fails is caught: it never ends the scheduler thread, the
\* loop goes on with exactly the subscribers that were still ahead of it, and
\* a tick that ends its loop has updated last_price.
C5_FailedPushStep ==
    (/\ tick_pc = "dispatch"
     /\ Len(tick_pushed') = Len(tick_pushed) + 1
     /\ ~tick_pushed'[Len(tick_pushed')].ok)
        => /\ tick_error' # "LineBotApiError"
           /\ (Cardinality(subscribers) = it_size /\ it_remaining # {})
                => (tick_pc' = "dispatch" /\ it_user' \in it_remaining)
           /\ (Cardinality(subscribers) = it_size /\ it_remaining = {})
                => (tick_pc' = "idle" /\ last_price' = fetched)
C5_FailedPushIsCaught ==
    /\ [](tick_error # "LineBotApiError")
    /\ [](tick_pc = "idle" => last_price = fetched)
    /\ [][C5_FailedPushStep]_vars

\* A tick has finished whose first push failed and whose second push, to the
\* other subscriber, was still attempted, and last_price is the fetched value.
C5_Witness ==
    /\ tick_pc = "idle" /\ change_message # None
    /\ Len(tick_pushed) = 2
    /\ ~tick_pushed[1].ok
    /\ tick_pushed[1].user # tick_pushed[2].user
    /\ PushedUsers = dispatch_set
    /\ last_price = fetched

\* C7 (for the ticks that reach the dispatch loop): a tick that is over has
\* left last_price equal to the value it fetched.
C7_LastPriceIsFetchedValue ==
    (change_message # None /\ tick_pc # "dispatch") => last_price = fetched

\* C8 (for the ticks that reach the dispatch loop): nothing that happens in
\* the dispatch of a tick ends the scheduler thread.
C8_DispatchNeverEndsScheduler ==
    ~(change_message # None /\ tick_pc = "dead")

\* Reading a rendered change back: an optional sign, then decimal digits.
DigitValue(c) == CHOOSE d \in 0..9 : DigitChars[d + 1] = c
RECURSIVE ParseDigits(_)
ParseDigits(cs) ==
    IF cs = <<>> THEN 0
    ELSE 10 * ParseDigits(SubSeq(cs, 1, Len(cs) - 1)) + DigitValue(cs[Len(cs)])
ParseChange(cs) ==
    IF Head(cs) = "+" THEN ParseDigits(Tail(cs))
    ELSE IF Head(cs) = "-" THEN 0 - ParseDigits(Tail(cs))
    ELSE ParseDigits(cs)
SignAgrees(cs, delta) ==
    /\ (Head(cs) = "+") <=> (delta > 0)
    /\ (Head(cs) = "-") <=> (delta < 0)
    /\ \A i \in 2..Len(cs) : cs[i] \notin {"+", "-"}

\* C6: for snapshots A (previous) and B (current) with integer prices and a
\* differing buy or sell price, the rendered buy delta reads B.blbuy - A.blbuy
\* and the rendered sell delta reads B.blsell - A.blsell, with a '+' prefix
\* exactly when the delta is positive, a '-' exactly when it is negative and
\* no sign when it is zero.
C6_DeltaAndSign ==
    (/\ fn_in.fn = "change"
     /\ fn_out # Pending
     /\ ~SamePrices(fn_in.last, fn_in.current))
        => LET buy == fn_in.current.blbuy.v - fn_in.last.blbuy.v
               sell == fn_in.current.blsell.v - fn_in.last.blsell.v
           IN /\ fn_out \notin {None, Raised}
              /\ ParseChange(fn_out.buy_change) = buy
              /\ ParseChange(fn_out.sell_change) = sell
              /\ SignAgrees(fn_out.buy_change, buy)
              /\ SignAgrees(fn_out.sell_change, sell)

\* The example of the specification: buy 100 -> 101 and sell 102 -> 102 render
\* "+1" and "0".
C6_Witness ==
    /\ fn_in.fn = "change"
    /\ fn_in.last.blbuy = Num(100) /\ fn_in.last.blsell = Num(102)
    /\ fn_in.current.blbuy = Num(101) /\ fn_in.current.blsell = Num(102)
    /\ fn_out # Pending
    /\ fn_out.buy_change = <<"+", "1">>
    /\ fn_out.sell_change = <<"0">>

\* C10: get_gold_price() never raises; it returns None on a network error, a
\* status other than 200, a body that is not JSON, an empty array and a first
\* element missing any of the four fields; it returns a snapshot only when the
\* status is 200 and the first element has all four fields, and the snapshot
\* is exactly those four fields of the first element.
HasFirstObject(resp) ==
    /\ resp.net = "ok" /\ resp.json
    /\ resp.data.t = "arr" /\ Len(resp.data.a) > 0
    /\ resp.data.a[1].t = "obj"
C10_FetchFailsSoft ==
    (fn_in.fn = "get_gold_price" /\ fn_out # Pending)
        => LET resp == fn_in.resp IN
           /\ fn_out # Raised
           /\ resp.net = "error" => fn_out = None
           /\ resp.status # 200 => fn_out = None
           /\ ~resp.json => fn_out = None
           /\ (resp.json /\ resp.data = JArr(<<>>)) => fn_out = None
           /\ (HasFirstObject(resp) /\ ~(Fields \subseteq DOMAIN resp.data.a[1].f))
                => fn_out = None
           /\ fn_out # None
                => /\ resp.status = 200
                   /\ HasFirstObject(resp)
                   /\ DOMAIN fn_out = Fields
                   /\ \A k \in Fields : fn_out[k] = resp.data.a[1].f[k]

\* A 200 response whose first element has every field but diff has given None.
C10_Witness ==
    /\ fn_in.fn = "get_gold_price"
    /\ fn_in.resp.status = 200
    /\ HasFirstObject(fn_in.resp)
    /\ DOMAIN fn_in.resp.data.a[1].f = {"asdate", "blbuy", "blsell", "extra"}
    /\ fn_out = None

C9_AfterRequest ==
    /\ (last_req.kind = "gold" /\ last_req.reply_ok) => last_req.user \in subscribers
    /\ last_req.kind = "unsubscribe" => last_req.user \notin subscribers
    /\ (last_req.kind = "unsubscribe" /\ ~last_req.member)
            => /\ last_req.reply = NotRegistered
               /\ last_req.http = Status(~last_req.reply_ok)
C9_RequestStep ==
    /\ \A u \in Users :
         ((u \in subscribers) # (u \in subscribers'))
            => /\ last_req'.user = u
               /\ last_req'.kind \in {"gold", "unsubscribe"}
    /\ (/\ last_req' # last_req
        /\ \/ last_req'.kind = "unsubscribe" /\ ~last_req'.member
           \/ last_req'.kind = "gold" /\ last_req'.member)
            => subscribers' = subscribers
C11_Answered ==
    /\ last_req.kind = "rejected"
         => (last_req.http = 400 /\ last_req.replies = 0 /\ last_req.confirm = "none")
    /\ app_req.kind = "rejected"
         => (app_req.http = 400 /\ app_req.replies = <<>> /\ ~app_req.stored)
C11_RejectedStep ==
    /\ (last_req' # last_req /\ last_req'.kind \in {"rejected", "nosig"})
         => /\ subscribers' = subscribers
            /\ last_price' = last_price
            /\ tick_pushed' = tick_pushed
            /\ h_pc' = h_pc
    /\ (app_req' # app_req /\ app_req'.kind \in {"rejected", "nosig"})
         => /\ users' = users
            /\ messages' = messages
            /\ a_pc' = a_pc
C11_InvalidSignatureRejected == []C11_Answered /\ [][C11_RejectedStep]_vars

\* app.py has rejected a request on /callback with rows in both tables.
C11_Witness ==
    /\ app_req.kind = "rejected"
    /\ app_req.route = "/callback"
    /\ app_req.http = 400
    /\ users # {}
    /\ messages # <<>>

\* C12: handling one text-message event calls reply_message with the event's
\* reply token at most once, on every path of handle_text_message (app2.py)
\* and of handle_message (app.py), the paths where the reply fails included.
C12_ReplyAtMostOnce ==
    /\ last_req.kind # "none" => last_req.replies <= 1
    /\ app_req.kind # "none" => Len(app_req.replies) <= 1

\* C13: a gold-price request handled while get_gold_price() returns None is
\* answered with the fixed 'unavailable' message and goes on as a request
\* with a snapshot does: in app2.py the sender is added to the set once the
\* reply is sent, the confirmation push is attempted, and the request ends
\* with status 200 when both sends succeed; in app.py the message row is
\* committed, the reply is the first reply_message call, and the status is 200.
C13_UnavailableIsNotAFailure ==
    /\ (last_req.kind = "gold" /\ last_req.gold_data = None)
         => /\ last_req.reply = Unavailable
            /\ last_req.replies = 1
            /\ last_req.reply_ok
                 => (last_req.user \in subscribers /\ last_req.confirm # "none")
            /\ (last_req.reply_ok /\ last_req.confirm = "ok") => last_req.http = 200
    /\ (app_req.kind = "message" /\ app_req.gold_data = None)
         => /\ app_req.stored
            /\ app_req.replies[1].text = Unavailable
            /\ app_req.http = 200

\* app2.py has answered a new sender's gold request 'unavailable', added the
\* sender and confirmed the registration.
C13_Witness ==
    /\ last_req.kind = "gold"
    /\ last_req.gold_data = None
    /\ last_req.reply = Unavailable
    /\ last_req.reply_ok
    /\ last_req.confirm = "ok"
    /\ last_req.http = 200
    /\ ~last_req.member
    /\ last_req.user \in subscribers

\* C14: in app.py, a text-message event whose source type is none of user,
\* group and room is ignored: no reply_message call, no row written to users
\* or messages, no price fetch, and no row is ever stored under such a source.
NamedSourceTypes == {"user", "group", "room"}
C14_Ignored ==
    /\ (app_req.kind = "message" /\ app_req.source \notin NamedSourceTypes)
         => /\ app_req.replies = <<>>
            /\ ~app_req.stored
            /\ app_req.gold_data = NotFetched
    /\ \A a \in AppHandlers :
         a_pc[a] = "store" => a_local[a].source \in NamedSourceTypes
C14_IgnoredStep ==
    (/\ app_req' # app_req
     /\ app_req'.kind = "message"
     /\ app_req'.source \notin NamedSourceTypes)
        => /\ users' = users
           /\ messages' = messages
           /\ a_pc' = a_pc
C14_UnknownSourceIgnored == []C14_Ignored /\ [][C14_IgnoredStep]_vars

\* A gold request from a source of another type has been ignored while rows
\* of earlier events are in the tables.
C14_Witness ==
    /\ app_req.kind = "message"
    /\ app_req.source = "device"
    /\ app_req.text = {"gold"}
    /\ app_req.replies = <<>>
    /\ app_req.gold_data = NotFetched
    /\ messages # <<>>

\* C15: whenever one of the four configuration values is absent from the
\* environment, the program run (app.py or app2.py) never gets to serve: its
\* startup fails before any webhook is handled and before any tick runs.
C15_StartupFailsWithoutConfig ==
    env # ConfigKeys
        => /\ main_pc # "serving" /\ app_pc # "serving"
           /\ tick_pc = "off"
           /\ last_req = NoRequest /\ app_req = NoRequest

\* C16: in app2.py, once the handler of a text message that contains an
\* unsubscribe keyword has finished, the sender is outside the subscriber set,
\* whatever other words the message contains.
C16_UnsubscribeWordUnsubscribes ==
    (last_req.kind \in {"gold", "unsubscribe", "other"} /\ last_req.unsub)
        => last_req.user \notin subscribers

\* C17: in app2.py, once a user's unsubscribe has been processed, no tick
\* that starts afterwards pushes a notification to that user until the user
\* subscribes again.  In parts: a processed unsubscribe leaves its sender
\* outside the set; a user outside the set gets into it only by an own gold
\* trigger; the users outside the set when a dispatch starts are the quiet
\* ones, and a user stops being quiet only by such a trigger; and no push of
\* the dispatch, in flight or made, is to a quiet user.
C17_NoPushToQuiet ==
    /\ last_req.kind = "unsubscribe" => last_req.user \notin subscribers
    /\ tick_pc = "dispatch" => it_user \notin quiet
    /\ PushedUsers \cap quiet = {}
    /\ quiet \cap subscribers = {}
C17_Step ==
    /\ \A u \in Users :
         (u \notin subscribers /\ u \in subscribers')
            => (last_req'.kind = "gold" /\ last_req'.user = u /\ last_req'.reply_ok)
    /\ (tick_pc # "dispatch" /\ tick_pc' = "dispatch") => quiet' = Users \ subscribers
    /\ (tick_pc = "dispatch" /\ tick_pc' = "dispatch")
         => \A u \in quiet : u \in quiet' \/ u \in subscribers'
C17_NoPushAfterUnsubscribe == []C17_NoPushToQuiet /\ [][C17_Step]_vars

\* A user who was subscribed has unsubscribed and has been outside the set
\* ever since the dispatch in progress started, and that dispatch is pushing
\* to the other subscriber.
C17_Witness ==
    /\ tick_pc = "dispatch"
    /\ last_req.kind = "unsubscribe"
    /\ last_req.member
    /\ last_req.reply = Cancelled
    /\ last_req.user \in quiet
    /\ it_user # NoUser
    /\ it_user # last_req.user

\* C18: in app.py, every row of table messages refers to a row of table
\* users (the foreign key declared at line 103), in every database state.
C18_ForeignKeyHolds ==
    \A i \in 1..Len(messages) : messages[i].user_id \in users

\* C19: in app2.py's handle_text_message, a gold trigger adds its sender to
\* the set only when the price reply has been sent: when the reply fails the
\* set is left as it was and no confirmation is pushed; when the reply is
\* sent the set is the old one with the sender added, and the sender stays
\* in it when the confirmation push fails (the request then ends with 500).
C19_AfterGold ==
    (last_req.kind = "gold" /\ last_req.reply_ok /\ last_req.confirm = "failed")
        => (last_req.user \in subscribers /\ last_req.http = 500)
C19_GoldStep ==
    (last_req' # last_req /\ last_req'.kind = "gold")
        => /\ ~last_req'.reply_ok
                => (subscribers' = subscribers /\ last_req'.confirm = "none")
           /\ last_req'.reply_ok
                => /\ subscribers' = subscribers \cup {last_req'.user}
                   /\ last_req'.confirm \in {"ok", "failed"}
C19_AddedOnlyAfterReply == []C19_AfterGold /\ [][C19_GoldStep]_vars

\* A new sender's reply was sent and the confirmation push failed: the sender
\* is subscribed, next to the other user.
C19_Witness ==
    /\ last_req.kind = "gold"
    /\ last_req.reply_ok
    /\ last_req.confirm = "failed"
    /\ ~last_req.member
    /\ last_req.user \in subscribers
    /\ Cardinality(subscribers) = 2

====
